---- MODULE Spec2Model ----
(***************************************************************************)
(* expand_grouped.py: the grouping simulation (simulate_groupings), the    *)
(* load report (generate_broadcast_schedule), the kernel emitter           *)
(* (generate_grouped_kernel) and the execution of the emitted kernel.      *)
(*                                                                         *)
(* Rounds and item positions are numbered from 0, as in the source.        *)
(* Tree.generate, Input.generate and myhash live in problem.py, which is   *)
(* imported but is not part of the sources at hand: they are modelled      *)
(* from the written specification (a tree of 2^(H+1)-1 values, a batch     *)
(* whose indices start at the root, an opaque deterministic hash).         *)
(***************************************************************************)
EXTENDS Integers, Sequences, FiniteSets, TLC

VARIABLES
    seed,          \* simulate_groupings parameter, feeds the generators
    hash_k,        \* which hash function of the family myhash is
    tree_height,   \* simulate_groupings parameter
    batch_size,    \* simulate_groupings parameter
    rounds,        \* simulate_groupings parameter
    n_nodes,       \* len(tree.values)
    indices,       \* inp.indices
    values,        \* inp.values
    r,             \* the round (or RoundInfo position) the current loop is at
    i,             \* the item position of the execute loop
    round_info,    \* the list simulate_groupings returns
    total_loads,   \* generate_broadcast_schedule
    naive_loads,   \* generate_broadcast_schedule
    rows,          \* the table rows generate_broadcast_schedule prints
    lines,         \* the round blocks generate_grouped_kernel emits
    k_idx,         \* kernel_grouped: idx
    k_val,         \* kernel_grouped: val
    k_loop,        \* kernel_grouped: which loop of the round block runs
    k_iter,        \* kernel_grouped: which iteration of that loop is next
    pc             \* where the pipeline is

vars == <<seed, hash_k, tree_height, batch_size, rounds, n_nodes,
          indices, values, r, i, round_info, total_loads, naive_loads, rows,
          lines, k_idx, k_val, k_loop, k_iter, pc>>

(***************************************************************************)
(* Bounds of the model.                                                    *)
(***************************************************************************)
MaxH == 4
MaxB == 9
MaxR == 11
MaxSeed == 1
ValMod == 16

(***************************************************************************)
(* Program constants.                                                      *)
(***************************************************************************)
DefaultHeight == 10
DefaultBatch == 256
DefaultRounds == 16
WrapRound == 10
GroupCap == 8
ReportCap == 32
NaiveBatch == 256
KernelRange == 256

HashIds == {0, 1, 2}

(***************************************************************************)
(* Arithmetic helpers.                                                     *)
(***************************************************************************)
RECURSIVE Pow2(_)
Pow2(n) == IF n <= 0 THEN 1 ELSE 2 * Pow2(n - 1)

\* Python's ^ on non-negative integers.
RECURSIVE BitXor(_, _)
BitXor(a, b) ==
    IF a = 0 THEN b
    ELSE IF b = 0 THEN a
    ELSE (((a % 2) + (b % 2)) % 2) + 2 * BitXor(a \div 2, b \div 2)

\* range(n) as a set: empty when n <= 0.
Range(n) == 0 .. (n - 1)

\* sorted(S) for a finite set of integers.
RECURSIVE Sorted(_)
Sorted(S) ==
    IF S = {} THEN <<>>
    ELSE LET m == CHOOSE x \in S : \A y \in S : x <= y
         IN <<m>> \o Sorted(S \ {m})

(***************************************************************************)
(* problem.py, modelled from the specification.                            *)
(***************************************************************************)
\* The hash primitive: opaque, deterministic, integer to integer. Three
\* members of the family: a bit rotation (separates every pair of values),
\* an affine map (parity depends on parity alone), a lossy squaring map.
myhash(k, v) ==
    CASE k = 0 -> ((v \div 2) + (v % 2) * (ValMod \div 2)) % ValMod
      [] k = 1 -> (5 * v + 3) % ValMod
      [] OTHER -> (v * v + (v \div 4) + 1) % ValMod

\* Tree.generate(height): 2^(H+1)-1 values drawn from the seeded generator.
TreeSize(height) == Pow2(height + 1) - 1
TreeValue(s, n) == (7 * s + 5 * n + (n \div 3)) % ValMod
TreeGenerate(s, height) == [n \in Range(TreeSize(height)) |-> TreeValue(s, n)]

\* Input.generate(tree, batch_size, rounds): indices at the root, values drawn.
InputValue(s, p) == (s + p * (2 * s + 1)) % ValMod
InputIndices(b) == [p \in Range(b) |-> 0]
InputValues(s, b) == [p \in Range(b) |-> InputValue(s, p)]

(***************************************************************************)
(* simulate_groupings.                                                     *)
(***************************************************************************)
\* Line 24: tree.values. The tree is generated once from the seed and the
\* height and never written again, so it is a function of the two.
tree_values == TreeGenerate(seed, tree_height)

\* Lines 33-35 with the slip groups[node] = [i] for groups[node].append(i).
GroupItemsOverwrite(inds, upto) ==
    [node \in {inds[p] : p \in Range(upto)} |->
        <<CHOOSE p \in Range(upto) :
            /\ inds[p] = node
            /\ \A q \in Range(upto) : inds[q] = node => q <= p>>]

\* Lines 33-35: groups[inp.indices[i]].append(i) for i in range(upto). The
\* list of a node holds, in increasing order, the positions whose index is
\* that node.
GroupItems(inds, upto) ==
    [node \in {inds[p] : p \in Range(upto)} |->
        SelectSeq([k \in 1 .. upto |-> k - 1], LAMBDA p : inds[p] = node)]

\* Lines 38-43.
RoundInfo(rnd, groups) ==
    [round |-> rnd,
     num_unique_nodes |-> Cardinality(DOMAIN groups),
     groups |-> groups,
     group_sizes |-> [node \in DOMAIN groups |-> Len(groups[node])]]

\* Line 51 with the children taken to be 2i and 2i+1.
ChildIndexFromOne(idx, val) == 2 * idx + (IF val % 2 = 0 THEN 0 ELSE 1)

\* Line 51.
ChildIndex(idx, val) == 2 * idx + (IF val % 2 = 0 THEN 1 ELSE 2)

\* Line 52 with the slip idx > n_nodes for idx >= n_nodes.
WrapOffByOne(idx, n) == IF idx > n THEN 0 ELSE idx

\* Line 52.
Wrap(idx, n) == IF idx >= n THEN 0 ELSE idx

\* Lines 48-54 with val carried over from the previous item instead of
\* being read from inp.values[i].
UpdateItemCarried(inds, vals, p) ==
    LET mine == IF p > 0 THEN vals[p - 1] ELSE vals[p]
        val == myhash(hash_k, BitXor(mine, tree_values[inds[p]]))
        idx == IF 2 * inds[p] + (IF val % 2 = 0 THEN 1 ELSE 2) >= n_nodes
               THEN 0
               ELSE 2 * inds[p] + (IF val % 2 = 0 THEN 1 ELSE 2)
    IN [indices |-> [inds EXCEPT ![p] = idx],
        values |-> [vals EXCEPT ![p] = val]]

\* Lines 48-54 for item p: the batch after the update.
UpdateItem(inds, vals, p) ==
    LET val == myhash(hash_k, BitXor(vals[p], tree_values[inds[p]]))
        idx == Wrap(ChildIndex(inds[p], val), n_nodes)
    IN [indices |-> [inds EXCEPT ![p] = idx],
        values |-> [vals EXCEPT ![p] = val]]

\* Lines 23-29 have run: the state simulate_groupings starts its loop in.
Start(s, k, h, b, rd) ==
    /\ seed = s
    /\ hash_k = k
    /\ tree_height = h
    /\ batch_size = b
    /\ rounds = rd
    /\ n_nodes = TreeSize(h)
    /\ indices = InputIndices(b)
    /\ values = InputValues(s, b)
    /\ r = 0
    /\ i = 0
    /\ round_info = <<>>
    /\ total_loads = 0
    /\ naive_loads = 0
    /\ rows = <<>>
    /\ lines = <<>>
    /\ k_idx = <<>>
    /\ k_val = <<>>
    /\ k_loop = 1
    /\ k_iter = 1
    /\ pc = IF rd > 0 THEN "group" ELSE "report"

Init ==
    \E s \in 0 .. MaxSeed, k \in HashIds, h \in 0 .. MaxH,
       b \in 1 .. MaxB, rd \in 1 .. MaxR :
        Start(s, k, h, b, rd)

\* Lines 33-44: group the batch by current node and record the round.
GroupRound ==
    /\ pc = "group"
    /\ round_info' = Append(round_info,
                            RoundInfo(r, GroupItems(indices, batch_size)))
    /\ i' = 0
    /\ pc' = IF batch_size > 0 THEN "exec"
             ELSE IF r + 1 < rounds THEN "group" ELSE "report"
    /\ r' = IF batch_size > 0 THEN r ELSE IF r + 1 < rounds THEN r + 1 ELSE 0
    /\ UNCHANGED <<seed, hash_k, tree_height, batch_size, rounds, n_nodes,
                   indices, values, total_loads, naive_loads, rows,
                   lines, k_idx, k_val, k_loop, k_iter>>

\* Lines 47-54: one iteration of the execute loop.
ExecItem ==
    /\ pc = "exec"
    /\ LET after == UpdateItem(indices, values, i)
       IN /\ indices' = after.indices
          /\ values' = after.values
    /\ IF i + 1 < batch_size
       THEN /\ i' = i + 1
            /\ UNCHANGED <<r, pc>>
       ELSE /\ i' = 0
            /\ IF r + 1 < rounds
               THEN r' = r + 1 /\ pc' = "group"
               ELSE r' = 0 /\ pc' = "report"
    /\ UNCHANGED <<seed, hash_k, tree_height, batch_size, rounds, n_nodes,
                   round_info, total_loads, naive_loads, rows,
                   lines, k_idx, k_val, k_loop, k_iter>>

(***************************************************************************)
(* generate_broadcast_schedule.                                            *)
(***************************************************************************)
\* Lines 177-182.
Strategy(n_groups) ==
    IF n_groups = 1 THEN "broadcast_all"
    ELSE IF n_groups <= ReportCap THEN "broadcasts"
    ELSE "sparse"

\* Lines 170-184: one iteration over round_info.
ReportRound ==
    /\ pc = "report"
    /\ r < Len(round_info)
    /\ LET info == round_info[r + 1]
           n_groups == info.num_unique_nodes
       IN /\ naive_loads' = naive_loads + NaiveBatch
          /\ total_loads' = total_loads + n_groups
          /\ rows' = Append(rows, [round |-> info.round, unique |-> n_groups,
                                   strategy |-> Strategy(n_groups)])
    /\ r' = r + 1
    /\ UNCHANGED <<seed, hash_k, tree_height, batch_size, rounds, n_nodes,
                   indices, values, i, round_info, lines, k_idx,
                   k_val, k_loop, k_iter, pc>>

\* Lines 186-189: the totals, and the ratio naive_loads / total_loads.
ReportEnd ==
    /\ pc = "report"
    /\ r = Len(round_info)
    /\ pc' = IF total_loads = 0 THEN "ZeroDivisionError" ELSE "emit"
    /\ r' = 0
    /\ UNCHANGED <<seed, hash_k, tree_height, batch_size, rounds, n_nodes,
                   indices, values, i, round_info, total_loads,
                   naive_loads, rows, lines, k_idx, k_val, k_loop, k_iter>>

(***************************************************************************)
(* generate_grouped_kernel.                                                *)
(***************************************************************************)
\* Lines 111, 125, 136 with the reporter's boundary (line 179) for the
\* emitter's.
ShapeReportCap(n_groups) ==
    IF n_groups = 1 THEN "single"
    ELSE IF n_groups <= ReportCap THEN "per_group"
    ELSE "indirection"

\* Lines 111, 125, 136: the code shape of a round with n_groups groups.
Shape(n_groups) ==
    IF n_groups = 1 THEN "single"
    ELSE IF n_groups <= GroupCap THEN "per_group"
    ELSE "indirection"

\* Lines 119-123: the index statement of the single-group loop.
SingleUpdate(rnd) == IF rnd = WrapRound THEN "wrap" ELSE "recurrence"

\* Lines 113-123.
SingleBlock(rnd, groups) ==
    LET node == CHOOSE x \in DOMAIN groups : TRUE
    IN [round |-> rnd, n_groups |-> 1, shape |-> "single",
        loads |-> <<node>>,
        loops |-> <<[source |-> "node_val", node |-> node,
                     items |-> groups[node], update |-> SingleUpdate(rnd)]>>]

\* Lines 127-134.
PerGroupBlock(rnd, groups) ==
    LET nodes == Sorted(DOMAIN groups)
    IN [round |-> rnd, n_groups |-> Len(nodes), shape |-> "per_group",
        loads |-> nodes,
        loops |-> [k \in 1 .. Len(nodes) |->
                     [source |-> "node_val", node |-> nodes[k],
                      items |-> groups[nodes[k]], update |-> "recurrence"]]]

\* Lines 138-145: the loop is over range(256).
IndirectionBlock(rnd, groups) ==
    LET nodes == Sorted(DOMAIN groups)
    IN [round |-> rnd, n_groups |-> Len(nodes), shape |-> "indirection",
        loads |-> nodes,
        loops |-> <<[source |-> "node_cache", node |-> -1,
                     items |-> [k \in 1 .. KernelRange |-> k - 1],
                     update |-> "recurrence"]>>]

\* Lines 105-147: the block of one RoundInfo.
EmitBlock(info) ==
    LET shape == Shape(Cardinality(DOMAIN info.groups))
    IN CASE shape = "single" -> SingleBlock(info.round, info.groups)
         [] shape = "per_group" -> PerGroupBlock(info.round, info.groups)
         [] OTHER -> IndirectionBlock(info.round, info.groups)

\* Lines 104-147: one iteration over round_info.
EmitRound ==
    /\ pc = "emit"
    /\ r < Len(round_info)
    /\ lines' = Append(lines, EmitBlock(round_info[r + 1]))
    /\ r' = r + 1
    /\ UNCHANGED <<seed, hash_k, tree_height, batch_size, rounds, n_nodes,
                   indices, values, i, round_info, total_loads,
                   naive_loads, rows, k_idx, k_val, k_loop, k_iter, pc>>

\* Lines 149-154: the return statement is appended and the file written.
EmitEnd ==
    /\ pc = "emit"
    /\ r = Len(round_info)
    /\ pc' = "written"
    /\ r' = 0
    /\ UNCHANGED <<seed, hash_k, tree_height, batch_size, rounds, n_nodes,
                   indices, values, i, round_info, total_loads,
                   naive_loads, rows, lines, k_idx, k_val, k_loop, k_iter>>

(***************************************************************************)
(* kernel_grouped, the emitted function, run on the simulator's tree and   *)
(* on the batch Input.generate produced.                                   *)
(***************************************************************************)
\* One iteration of an emitted loop, for item p (lines 118-123, 132-134,
\* 143-145). st is [idx, val, err].
RunItem(st, block, loop, p) ==
    IF st.err # "none" THEN st
    ELSE IF p \notin DOMAIN st.val THEN [st EXCEPT !.err = "IndexError"]
    ELSE IF loop.source = "node_cache"
            /\ \A k \in 1 .. Len(block.loads) : block.loads[k] # st.idx[p]
    THEN [st EXCEPT !.err = "KeyError"]
    ELSE LET node_val == IF loop.source = "node_cache"
                         THEN tree_values[st.idx[p]]
                         ELSE tree_values[loop.node]
             val == myhash(hash_k, BitXor(st.val[p], node_val))
             idx == IF loop.update = "wrap" THEN 0
                    ELSE Wrap(ChildIndex(st.idx[p], val), n_nodes)
         IN [st EXCEPT !.idx[p] = idx, !.val[p] = val]

\* The first block at or after position rr that has a loop to run.
RECURSIVE SkipEmpty(_)
SkipEmpty(rr) ==
    IF rr < Len(lines) /\ Len(lines[rr + 1].loops) = 0
    THEN SkipEmpty(rr + 1)
    ELSE rr

\* Lines 98-101: the call and the preamble of the emitted function.
KernelCall ==
    /\ pc = "written"
    /\ k_idx' = InputIndices(batch_size)
    /\ k_val' = InputValues(seed, batch_size)
    /\ r' = SkipEmpty(0)
    /\ k_loop' = 1
    /\ k_iter' = 1
    /\ pc' = "kernel"
    /\ UNCHANGED <<seed, hash_k, tree_height, batch_size, rounds, n_nodes,
                   indices, values, i, round_info, total_loads,
                   naive_loads, rows, lines>>

\* One iteration of a loop of an emitted round block, then on to the next
\* iteration, the next loop or the next block.
KernelItem ==
    /\ pc = "kernel"
    /\ r < Len(lines)
    /\ LET block == lines[r + 1]
           loop == block.loops[k_loop]
           st == RunItem([idx |-> k_idx, val |-> k_val, err |-> "none"],
                         block, loop, loop.items[k_iter])
       IN /\ k_idx' = st.idx
          /\ k_val' = st.val
          /\ IF st.err # "none"
             THEN pc' = st.err /\ UNCHANGED <<r, k_loop, k_iter>>
             ELSE /\ pc' = "kernel"
                  /\ IF k_iter < Len(loop.items)
                     THEN k_iter' = k_iter + 1 /\ UNCHANGED <<r, k_loop>>
                     ELSE IF k_loop < Len(block.loops)
                     THEN k_loop' = k_loop + 1 /\ k_iter' = 1 /\ UNCHANGED r
                     ELSE r' = SkipEmpty(r + 1) /\ k_loop' = 1 /\ k_iter' = 1
    /\ UNCHANGED <<seed, hash_k, tree_height, batch_size, rounds, n_nodes,
                   indices, values, i, round_info, total_loads,
                   naive_loads, rows, lines>>

\* Line 149 of the emitter: return idx, val.
KernelReturn ==
    /\ pc = "kernel"
    /\ r = Len(lines)
    /\ pc' = "returned"
    /\ UNCHANGED <<seed, hash_k, tree_height, batch_size, rounds, n_nodes,
                   indices, values, r, i, round_info, total_loads,
                   naive_loads, rows, lines, k_idx, k_val, k_loop, k_iter>>

Next ==
    \/ GroupRound
    \/ ExecItem
    \/ ReportRound
    \/ ReportEnd
    \/ EmitRound
    \/ EmitEnd
    \/ KernelCall
    \/ KernelItem
    \/ KernelReturn

Spec == Init /\ [][Next]_vars

\* simulate_groupings() as __main__ calls it (line 240): the defaults of
\* line 18 for the height, the batch size and the round count.
InitDefault ==
    \E s \in 0 .. MaxSeed, k \in HashIds :
        Start(s, k, DefaultHeight, DefaultBatch, DefaultRounds)

SpecDefault == InitDefault /\ [][Next]_vars

\* Any integers for the batch size and the round count: the signature of
\* line 18 takes them, and nothing between line 18 and line 31 rejects them.
InitUnvalidated ==
    \E s \in 0 .. MaxSeed, k \in HashIds, h \in 0 .. MaxH,
       b \in -1 .. MaxB, rd \in -1 .. MaxR :
        Start(s, k, h, b, rd)

SpecUnvalidated == InitUnvalidated /\ [][Next]_vars

(***************************************************************************)
(* Properties.                                                             *)
(***************************************************************************)
\* The RoundInfo of the round the simulator is in.
LastInfo == round_info[Len(round_info)]

\* The places <<node, k>> of a group mapping, one per list entry.
Slots(groups) ==
    UNION {{<<node, k>> : k \in 1 .. Len(groups[node])} : node \in DOMAIN groups}

RECURSIVE SumOver(_, _)
SumOver(f, S) ==
    IF S = {} THEN 0
    ELSE LET x == CHOOSE y \in S : TRUE
         IN f[x] + SumOver(f, S \ {x})

\* C1: every item's index is a node of the tree, in every state of the
\* simulation (at the start of every round and after every item update), so
\* tree.values[idx] is always a valid read.
C1_IndexInRange ==
    /\ n_nodes = TreeSize(tree_height)
    /\ \A p \in Range(batch_size) :
        /\ indices[p] >= 0
        /\ indices[p] < n_nodes

\* An item at the deepest level has just been wrapped to the root.
C1_Witness ==
    /\ pc = "exec"
    /\ tree_height >= 1
    /\ r % (tree_height + 1) = tree_height
    /\ i >= 1
    /\ indices[i - 1] = 0

\* The groups of a RoundInfo partition the batch: each item position is in
\* exactly one list exactly once, and the sizes sum to the batch size.
IsPartition(info) ==
    /\ \A p \in Range(batch_size) :
        Cardinality({s \in Slots(info.groups) :
                        info.groups[s[1]][s[2]] = p}) = 1
    /\ Cardinality(Slots(info.groups)) = batch_size
    /\ SumOver(info.group_sizes, DOMAIN info.group_sizes) = batch_size
    /\ \A node \in DOMAIN info.groups :
        info.group_sizes[node] = Len(info.groups[node])
    /\ info.num_unique_nodes = Cardinality(DOMAIN info.groups)

\* C2: in every recorded round the groups partition the batch (checked for
\* each RoundInfo when it is recorded, and for all of them when
\* simulate_groupings returns), and the list an item is in is keyed by the
\* index the item has at the start of the round.
C2_Partition ==
    /\ (pc = "exec" /\ i = 0) => IsPartition(LastInfo)
    /\ (pc = "report" /\ r = 0) =>
        \A k \in 1 .. Len(round_info) : IsPartition(round_info[k])
    /\ pc = "exec" =>
        \A p \in i .. (batch_size - 1) :
            /\ indices[p] \in DOMAIN LastInfo.groups
            /\ \E k \in 1 .. Len(LastInfo.groups[indices[p]]) :
                LastInfo.groups[indices[p]][k] = p

\* A round was recorded with several groups, one of them of several items.
C2_Witness ==
    /\ pc = "exec"
    /\ i = 0
    /\ LastInfo.num_unique_nodes >= 2
    /\ \E node \in DOMAIN LastInfo.groups : Len(LastInfo.groups[node]) >= 2

\* C3: every emitted round block has exactly one of the three code shapes,
\* and which one is decided by the round's distinct-node count g alone:
\* single-broadcast iff g = 1, per-group broadcast iff 1 < g <= 8,
\* indirection iff g > 8.
C3_ShapeByGroupCount ==
    \A k \in 1 .. Len(lines) :
        LET g == round_info[k].num_unique_nodes
            block == lines[k]
        IN /\ block.round = round_info[k].round
           /\ block.shape \in {"single", "per_group", "indirection"}
           /\ block.shape = "single" <=> g = 1
           /\ block.shape = "per_group" <=> (1 < g /\ g <= 8)
           /\ block.shape = "indirection" <=> g > 8
           /\ block.shape = "single" =>
                /\ Len(block.loads) = 1
                /\ Len(block.loops) = 1
                /\ block.loops[1].source = "node_val"
           /\ block.shape = "per_group" =>
                /\ Len(block.loads) = g
                /\ Len(block.loops) = g
                /\ \A n \in 1 .. g : block.loops[n].source = "node_val"
           /\ block.shape = "indirection" =>
                /\ Len(block.loads) = g
                /\ Len(block.loops) = 1
                /\ block.loops[1].source = "node_cache"

\* One kernel holds blocks of all three shapes, the indirection block for
\* the first count above the boundary (g = 9).
C3_Witness ==
    /\ pc = "written"
    /\ \E k \in 1 .. Len(lines) : lines[k].shape = "single"
    /\ \E k \in 1 .. Len(lines) : lines[k].shape = "per_group"
    /\ \E k \in 1 .. Len(lines) :
        lines[k].shape = "indirection" /\ lines[k].n_groups = 9

\* C4: the traversal is cyclic with period H+1. In a round r with
\* r mod (H+1) = H every item's computed next index 2*index+selector is at
\* least N, so the update wraps every item to 0; every recorded round r with
\* r mod (H+1) = 0, round 0 included, has all items at node 0 in one group.
C4_CyclicTraversal ==
    /\ (pc = "exec" /\ r % (tree_height + 1) = tree_height) =>
        /\ \A p \in i .. (batch_size - 1) :
            ChildIndex(indices[p],
                       UpdateItem(indices, values, p).values[p]) >= n_nodes
        /\ \A p \in 0 .. (i - 1) : indices[p] = 0
    /\ \A k \in 1 .. Len(round_info) :
        round_info[k].round % (tree_height + 1) = 0 =>
            /\ round_info[k].num_unique_nodes = 1
            /\ DOMAIN round_info[k].groups = {0}
            /\ Len(round_info[k].groups[0]) = batch_size

\* A second descent starts: a round of several groups was followed by a
\* round that has the whole batch back at the root.
C4_Witness ==
    /\ pc = "exec"
    /\ i = 0
    /\ r > 0
    /\ r % (tree_height + 1) = 0
    /\ batch_size >= 2
    /\ round_info[Len(round_info) - 1].num_unique_nodes >= 2
    /\ LastInfo.num_unique_nodes = 1

\* The batch after the updates of the items of order, in that order.
RECURSIVE RunOrder(_, _, _, _)
RunOrder(inds, vals, order, upto) ==
    IF upto = 0 THEN [indices |-> inds, values |-> vals]
    ELSE LET before == RunOrder(inds, vals, order, upto - 1)
         IN UpdateItem(before.indices, before.values, order[upto])

\* The orders of the items 0..b-1.
Orders(b) ==
    {o \in [1 .. b -> Range(b)] : \A x, y \in 1 .. b : o[x] = o[y] => x = y}

SequentialOrder(b) == [k \in 1 .. b |-> k - 1]
ReverseOrder(b) == [k \in 1 .. b |-> b - k]

\* C9: the item updates of a round are independent. From the batch at the
\* start of a round, every order of the B updates gives the batch the
\* sequential order 0..B-1 gives (all orders for B <= 4, the reverse order
\* for every B), two updates of different items commute and an update
\* changes only its own item; the rounds are recorded in order.
C9_ItemsIndependent ==
    /\ pc = "group" =>
        LET seq == RunOrder(indices, values, SequentialOrder(batch_size),
                            batch_size)
        IN /\ RunOrder(indices, values, ReverseOrder(batch_size),
                       batch_size) = seq
           /\ batch_size <= 4 =>
                \A o \in Orders(batch_size) :
                    RunOrder(indices, values, o, batch_size) = seq
           /\ \A p, q \in Range(batch_size) :
                LET a == UpdateItem(indices, values, p)
                    b == UpdateItem(indices, values, q)
                IN /\ \A x \in Range(batch_size) \ {p} :
                        /\ a.indices[x] = indices[x]
                        /\ a.values[x] = values[x]
                   /\ p < q =>
                        UpdateItem(a.indices, a.values, q)
                            = UpdateItem(b.indices, b.values, p)
    /\ \A k \in 1 .. Len(round_info) : round_info[k].round = k - 1

\* A round starts with the batch spread over several nodes.
C9_Witness ==
    /\ pc = "group"
    /\ r >= 1
    /\ batch_size >= 3
    /\ \E p, q \in Range(batch_size) :
        indices[p] # indices[q] /\ values[p] # values[q]

\* C5: with height 10, batch size 256 and 16 rounds, the RoundInfo of
\* round 10 has exactly one group, holding all 256 items, as round 0 has.
C5_Round10OneGroup ==
    (tree_height = 10 /\ batch_size = 256 /\ rounds = 16) =>
        \A k \in 1 .. Len(round_info) :
            round_info[k].round \in {0, 10} =>
                /\ round_info[k].num_unique_nodes = 1
                /\ \A node \in DOMAIN round_info[k].group_sizes :
                    round_info[k].group_sizes[node] = 256

\* C6: the block of the round whose update wraps every item (the round of
\* index H) uses the wrap assignment idx[i] = 0 in its loops, and the block
\* of every other round uses the generic recurrence.
C6_WrapFormAtHeight ==
    \A k \in 1 .. Len(lines) :
        \A n \in 1 .. Len(lines[k].loops) :
            lines[k].loops[n].update = "wrap" <=> lines[k].round = tree_height

\* The report has printed its totals.
ReportDone == pc \in {"emit", "written", "kernel", "returned"}

\* C7: when the report is done the grouped total is the sum of the rounds'
\* distinct-node counts, the naive total is R * B, every round's count is at
\* most B, and the grouped total is at most the naive total, with equality
\* only when every round has B groups.
C7_LoadTotals ==
    ReportDone =>
        /\ total_loads =
            SumOver([k \in 1 .. Len(round_info) |->
                        round_info[k].num_unique_nodes],
                    1 .. Len(round_info))
        /\ naive_loads = rounds * batch_size
        /\ \A k \in 1 .. Len(rows) : rows[k].unique <= batch_size
        /\ total_loads <= naive_loads
        /\ total_loads = naive_loads =>
            \A k \in 1 .. Len(rows) : rows[k].unique = batch_size

\* The configuration is consistent.
ConfigValid ==
    /\ batch_size > 0
    /\ rounds > 0
    /\ n_nodes = Pow2(tree_height + 1) - 1

\* C8: from an inconsistent configuration no RoundInfo is produced, no
\* report total is computed and no kernel block is emitted: the pipeline
\* stops before the first simulation round.
C8_FailsFast ==
    ~ConfigValid =>
        /\ round_info = <<>>
        /\ rows = <<>>
        /\ total_loads = 0
        /\ naive_loads = 0
        /\ lines = <<>>
        /\ pc \notin {"exec", "emit", "written", "kernel", "returned"}

\* The items an emitted block updates, one entry per loop iteration.
BlockItems(block) ==
    UNION {{<<n, k>> : k \in 1 .. Len(block.loops[n].items)} :
           n \in 1 .. Len(block.loops)}

\* C10: the emitted kernel, run on the simulator's tree and initial batch,
\* returns the indices and values the simulator's batch holds after R
\* rounds; each emitted block updates every item 0..B-1 exactly once and the
\* run raises nothing.
C10_KernelMatchesSimulator ==
    /\ pc \notin {"IndexError", "KeyError"}
    /\ pc = "returned" => (k_idx = indices /\ k_val = values)
    /\ \A b \in 1 .. Len(lines) :
        /\ Cardinality(BlockItems(lines[b])) = batch_size
        /\ {lines[b].loops[s[1]].items[s[2]] : s \in BlockItems(lines[b])}
            = Range(batch_size)

====
